---- MODULE Spec2Model ----
(***************************************************************************)
(* Model of SmartGrid::GridManager (Smartgridsimulator.cpp): the sources,  *)
(* loads, breaker map and fault set, the cycle procedure simulate() and    *)
(* the operator commands of the menu loop in main().                       *)
(*                                                                         *)
(* Abstractions: float kW values are integers (every value the model uses  *)
(* is exactly representable, sums stay far below 2^24); console output is  *)
(* not modelled.  Component names are strings; tokens typed by the         *)
(* operator are sequences of one-character strings.                        *)
(***************************************************************************)
EXTENDS Integers, Sequences, FiniteSets, TLC

VARIABLES sources, loads, breakers, faults, running, last

vars == <<sources, loads, breakers, faults, running, last>>

(* ------------------------------ bounds -------------------------------- *)
MaxSources == 1     \* sources registered in one run
MaxLoads == 2       \* loads registered in one run

(* -------------------------- program constants ------------------------- *)
SolarInitial == 50
SolarBase == 20
SolarSpan == 30

(* std::string operator< on the names the model uses (std::set order) *)
NameOrder ==
  <<"", "Clinic-D", "Factory-A", "House-B", "HydroStation", "Shop-C", "SolarFarm-A">>

(* components the operator registers: those of main(), a Fixed source
   registered at the menu under the name of a load, and a load registered
   at the menu with the priority of another *)
SourceCatalogue ==
  { [name |-> "SolarFarm-A", powerOutput |-> SolarInitial, solar |-> TRUE, status |-> TRUE],
    [name |-> "HydroStation", powerOutput |-> 60, solar |-> FALSE, status |-> TRUE],
    [name |-> "Factory-A", powerOutput |-> 40, solar |-> FALSE, status |-> TRUE] }

LoadCatalogue ==
  { [name |-> "Factory-A", demand |-> 30, priority |-> 2, connected |-> TRUE],
    [name |-> "House-B", demand |-> 15, priority |-> 1, connected |-> TRUE],
    [name |-> "Shop-C", demand |-> 10, priority |-> 3, connected |-> TRUE],
    [name |-> "Clinic-D", demand |-> 20, priority |-> 3, connected |-> TRUE] }

\* selector tokens the operator types at the fault prompt: references to
\* every load and source position, positions past the end, tokens with no
\* number, and tokens that start with neither 'L' nor 'S'
Tokens ==
  { <<"L", d>> : d \in {"0", "1", "2", "3", "4"} }
    \cup { <<"S", d>> : d \in {"0", "1", "2"} }
    \cup { <<"L">>, <<"S", "x">>, <<"L", "1", "x">>, <<"x", "0">>, <<"0">> }

\* values std::rand() returns: they give the least and the greatest output
\* of a SolarSource
RandSamples == {29, 30}

\* indexes the operator types: every valid one and the first invalid ones
Indexes == 0..MaxLoads

(* ------------------------------ Breaker ------------------------------- *)
\* std::map<std::string, Breaker> is a function name -> tripped

EmplaceOverwrite(brk, name) ==
  [n \in DOMAIN brk \cup {name} |-> IF n = name THEN FALSE ELSE brk[n]]

\* breakers.emplace(name, Breaker(name)): no effect when the key exists
Emplace(brk, name) ==
  [n \in DOMAIN brk \cup {name} |-> IF n \in DOMAIN brk THEN brk[n] ELSE FALSE]

TripNoLatch(brk, name) == Emplace(brk, name)

\* breakers[name].trip(): operator[] default-constructs a missing entry
Trip(brk, name) ==
  [n \in DOMAIN brk \cup {name} |-> IF n = name THEN TRUE ELSE brk[n]]

ResetNone(brk, name) == Emplace(brk, name)

\* breakers[name].reset()
Reset(brk, name) ==
  [n \in DOMAIN brk \cup {name} |-> IF n = name THEN FALSE ELSE brk[n]]

\* breakers[name].isTripped() for a registered name
IsTripped(brk, name) == brk[name]

(* ------------------------------- sums --------------------------------- *)
RECURSIVE SumTo(_, _)
SumTo(f, n) == IF n = 0 THEN 0 ELSE SumTo(f, n - 1) + f[n]

\* sum of the demand of the loads that are connected with an untripped breaker
ActiveDemand(lds, brk) ==
  SumTo([i \in 1..Len(lds) |->
           IF ~IsTripped(brk, lds[i].name) /\ lds[i].connected
           THEN lds[i].demand ELSE 0], Len(lds))

\* sum of the output of the sources that are untripped and connected
ActivePower(srcs, brk) ==
  SumTo([i \in 1..Len(srcs) |->
           IF ~IsTripped(brk, srcs[i].name) /\ srcs[i].status
           THEN srcs[i].powerOutput ELSE 0], Len(srcs))

(* --------------------------- source step ------------------------------ *)
SimulateSourcesTripped(srcs, brk, r) ==
  [i \in 1..Len(srcs) |->
     IF srcs[i].solar /\ srcs[i].status
     THEN [srcs[i] EXCEPT !.powerOutput = SolarBase + (r[i] % SolarSpan)]
     ELSE srcs[i]]

\* src->simulate() for every source whose breaker is not tripped; r[i] is
\* the value std::rand() returns for source i
SimulateSources(srcs, brk, r) ==
  [i \in 1..Len(srcs) |->
     IF ~IsTripped(brk, srcs[i].name) /\ srcs[i].solar /\ srcs[i].status
     THEN [srcs[i] EXCEPT !.powerOutput = SolarBase + (r[i] % SolarSpan)]
     ELSE srcs[i]]

(* ------------------------------ sorting ------------------------------- *)
ShedBeforeAscending(a, b) == a.priority < b.priority

\* comparator of the deficit sort
ShedBefore(a, b) == a.priority > b.priority

\* comparator of the surplus sort
ReconnectBefore(a, b) == a.priority < b.priority

\* std::sort: any arrangement of S in which no later element must precede
\* an earlier one; the order of equivalent elements is unspecified
SortedDeficit(lds, S) ==
  { s \in [1..Cardinality(S) -> S] :
      /\ \A p, q \in DOMAIN s : p # q => s[p] # s[q]
      /\ \A p, q \in DOMAIN s : p < q => ~ShedBefore(lds[s[q]], lds[s[p]]) }

SortedSurplus(lds, S) ==
  { s \in [1..Cardinality(S) -> S] :
      /\ \A p, q \in DOMAIN s : p # q => s[p] # s[q]
      /\ \A p, q \in DOMAIN s : p < q => ~ReconnectBefore(lds[s[q]], lds[s[p]]) }

(* --------------------------- deficit branch --------------------------- *)
RECURSIVE ShedWalkTripAll(_, _, _, _, _, _, _)
ShedWalkTripAll(order, k, lds, brk, totalPower, totalDemand, shed) ==
  IF k > Len(order)
  THEN [loads |-> lds, breakers |-> brk, totalDemand |-> totalDemand,
        shed |-> shed]
  ELSE LET i == order[k]
           lds2 == [lds EXCEPT ![i].connected = FALSE]
           brk2 == [n \in DOMAIN brk |->
                      brk[n] \/ \E p \in k..Len(order) : lds[order[p]].name = n]
           td2 == totalDemand - lds[i].demand
       IN IF totalPower >= td2
          THEN [loads |-> lds2, breakers |-> brk2, totalDemand |-> td2,
                shed |-> Append(shed, i)]
          ELSE ShedWalkTripAll(order, k + 1, lds2, brk2, totalPower, td2,
                               Append(shed, i))

\* the loop over sortedLoads, from position k on
RECURSIVE ShedWalk(_, _, _, _, _, _, _)
ShedWalk(order, k, lds, brk, totalPower, totalDemand, shed) ==
  IF k > Len(order)
  THEN [loads |-> lds, breakers |-> brk, totalDemand |-> totalDemand,
        shed |-> shed]
  ELSE LET i == order[k]
           lds2 == [lds EXCEPT ![i].connected = FALSE]
           brk2 == Trip(brk, lds[i].name)
           td2 == totalDemand - lds[i].demand
       IN IF totalPower >= td2
          THEN [loads |-> lds2, breakers |-> brk2, totalDemand |-> td2,
                shed |-> Append(shed, i)]
          ELSE ShedWalk(order, k + 1, lds2, brk2, totalPower, td2,
                        Append(shed, i))

(* --------------------------- surplus branch --------------------------- *)
EligibleIgnoringBreaker(l, brk) == ~l.connected

\* a load the surplus branch collects
Eligible(l, brk) == ~l.connected /\ ~IsTripped(brk, l.name)

AdmitStrict(totalPower, totalDemand, l) == totalPower > totalDemand + l.demand

AdmitWithoutDemand(totalPower, totalDemand, l) == totalPower >= totalDemand

\* the capacity check of the surplus walk
Admit(totalPower, totalDemand, l) == totalPower >= totalDemand + l.demand

\* the loop over disconnectedLoads, from position k on
RECURSIVE RestoreWalk(_, _, _, _, _, _)
RestoreWalk(order, k, lds, totalPower, totalDemand, walk) ==
  IF k > Len(order)
  THEN [loads |-> lds, totalDemand |-> totalDemand, walk |-> walk]
  ELSE LET i == order[k]
           ok == Admit(totalPower, totalDemand, lds[i])
           entry == [idx |-> i, before |-> totalDemand, admitted |-> ok]
       IN IF ok
          THEN RestoreWalk(order, k + 1, [lds EXCEPT ![i].connected = TRUE],
                           totalPower, totalDemand + lds[i].demand,
                           Append(walk, entry))
          ELSE RestoreWalk(order, k + 1, lds, totalPower, totalDemand,
                           Append(walk, entry))

(* ------------------------------ the cycle ----------------------------- *)
\* the report of a cycle: the loads, the state of their breakers and the
\* breaker map when it was entered, the totals, the branch taken, the sorted
\* candidates, the loads shed and the admission decisions, in the order they
\* were made
NoCycle ==
  [ran |-> FALSE, loads0 |-> <<>>, tripped0 |-> <<>>, breakers0 |-> <<>>,
   totalPower |-> 0, demand0 |-> 0, totalDemand |-> 0, branch |-> "none",
   order |-> <<>>, shed |-> <<>>, walk |-> <<>>]

DeficitOrEqual(totalPower, totalDemand) == totalPower <= totalDemand

\* the test that selects the deficit branch
Deficit(totalPower, totalDemand) == totalPower < totalDemand

\* the outcomes of one simulate() entered with srcs, lds, brk
CycleOutcomes(srcs, lds, brk) ==
  UNION {
    LET srcs2 == SimulateSources(srcs, brk, r)
        totalPower == ActivePower(srcs2, brk)
        demand0 == ActiveDemand(lds, brk)
        base == [NoCycle EXCEPT !.ran = TRUE, !.loads0 = lds,
                   !.tripped0 = [i \in 1..Len(lds) |-> IsTripped(brk, lds[i].name)],
                   !.breakers0 = brk,
                   !.totalPower = totalPower, !.demand0 = demand0]
    IN IF Deficit(totalPower, demand0)
       THEN { LET w == ShedWalk(order, 1, lds, brk, totalPower, demand0, <<>>)
              IN [sources |-> srcs2, loads |-> w.loads, breakers |-> w.breakers,
                  rep |-> [base EXCEPT !.branch = "deficit", !.order = order,
                             !.shed = w.shed, !.totalDemand = w.totalDemand]]
              : order \in SortedDeficit(lds,
                            {i \in 1..Len(lds) : lds[i].connected}) }
       ELSE { LET w == RestoreWalk(order, 1, lds, totalPower, demand0, <<>>)
              IN [sources |-> srcs2, loads |-> w.loads, breakers |-> brk,
                  rep |-> [base EXCEPT !.branch = "surplus", !.order = order,
                             !.walk = w.walk, !.totalDemand = w.totalDemand]]
              : order \in SortedSurplus(lds,
                            {i \in 1..Len(lds) : Eligible(lds[i], brk)}) }
    : r \in [1..Len(srcs) -> RandSamples] }

(* ------------------------------ actions ------------------------------- *)
\* what the last command was: its kind, the form of the selector it was
\* given, whether the index it used was within bounds, how it ended (no
\* command of the program has an error return: it returns, "ok", or the
\* process ends), the fault name it resolved, the load index it set, the
\* cycle it ran, and how many cycles the operator has run in a row
NoOp == [op |-> "init", form |-> "none", valid |-> TRUE, outcome |-> "ok",
         name |-> "", index |-> 0, rep |-> NoCycle, streak |-> 0]

Init ==
  /\ sources = <<>>
  /\ loads = <<>>
  /\ breakers = <<>>
  /\ faults = {}
  /\ running = TRUE
  /\ last = NoOp

\* menu choice 1
Simulate ==
  /\ running
  /\ \E o \in CycleOutcomes(sources, loads, breakers) :
       /\ sources' = o.sources
       /\ loads' = o.loads
       /\ breakers' = o.breakers
       /\ last' = [NoOp EXCEPT !.op = "simulate", !.rep = o.rep]
  /\ UNCHANGED <<faults, running>>

\* menu choice 8
AddSource(c) ==
  /\ running
  /\ Len(sources) < MaxSources
  /\ \E o \in CycleOutcomes(Append(sources, c), loads, Emplace(breakers, c.name)) :
       /\ sources' = o.sources
       /\ loads' = o.loads
       /\ breakers' = o.breakers
       /\ last' = [NoOp EXCEPT !.op = "addSource", !.rep = o.rep]
  /\ UNCHANGED <<faults, running>>

AddLoadThenCycle(l) ==
  /\ running
  /\ Len(loads) < MaxLoads
  /\ \E o \in CycleOutcomes(sources, Append(loads, l), Emplace(breakers, l.name)) :
       /\ sources' = o.sources
       /\ loads' = o.loads
       /\ breakers' = o.breakers
       /\ last' = [NoOp EXCEPT !.op = "addLoad", !.rep = o.rep]
  /\ UNCHANGED <<faults, running>>

\* menu choice 7
AddLoad(l) ==
  /\ running
  /\ Len(loads) < MaxLoads
  /\ loads' = Append(loads, l)
  /\ breakers' = Emplace(breakers, l.name)
  /\ last' = [NoOp EXCEPT !.op = "addLoad"]
  /\ UNCHANGED <<sources, faults, running>>

(* --------------------------- operator input --------------------------- *)
IsDigit(c) == c \in {"0", "1", "2", "3", "4", "5", "6", "7", "8", "9"}

DigitValue(c) ==
  CASE c = "0" -> 0 [] c = "1" -> 1 [] c = "2" -> 2 [] c = "3" -> 3
    [] c = "4" -> 4 [] c = "5" -> 5 [] c = "6" -> 6 [] c = "7" -> 7
    [] c = "8" -> 8 [] c = "9" -> 9

\* the longest prefix of s made of digits
RECURSIVE DigitPrefix(_)
DigitPrefix(s) ==
  IF s = <<>> \/ ~IsDigit(Head(s)) THEN <<>>
  ELSE <<Head(s)>> \o DigitPrefix(Tail(s))

RECURSIVE Decimal(_)
Decimal(d) ==
  IF d = <<>> THEN 0
  ELSE 10 * Decimal(SubSeq(d, 1, Len(d) - 1)) + DigitValue(d[Len(d)])

\* std::stoi: converts the leading digits and ignores what follows; with no
\* leading digit it throws std::invalid_argument (ok = FALSE)
Stoi(s) ==
  LET d == DigitPrefix(s)
  IN IF d = <<>> THEN [ok |-> FALSE, value |-> 0]
     ELSE [ok |-> TRUE, value |-> Decimal(d)]

\* the selector forms the prompt offers: "L<i>" for a load, "S<i>" for a
\* source; anything else is malformed
SelectorForm(token) ==
  IF Len(token) >= 2 /\ DigitPrefix(Tail(token)) = Tail(token)
  THEN IF token[1] = "L" THEN "load"
       ELSE IF token[1] = "S" THEN "source" ELSE "malformed"
  ELSE "malformed"

\* the fault set in iteration order (std::set<std::string>)
RECURSIVE FaultSeqFrom(_, _)
FaultSeqFrom(flt, k) ==
  IF k > Len(NameOrder) THEN <<>>
  ELSE IF NameOrder[k] \in flt
       THEN <<NameOrder[k]>> \o FaultSeqFrom(flt, k + 1)
       ELSE FaultSeqFrom(flt, k + 1)

FaultSeq(flt) == FaultSeqFrom(flt, 1)

\* what a read of a vector element past size() can yield as a name: the
\* empty string or a stale copy of a registered name
StaleNames(brk) == {""} \cup DOMAIN brk

SetConnectedToggle(lds, index, flag) ==
  [lds EXCEPT ![index + 1].connected = ~@]

\* loads[index].disconnect() / loads[index].reconnect() with index < size()
SetConnected(lds, index, flag) == [lds EXCEPT ![index + 1].connected = flag]

(* ------------------------- operator commands -------------------------- *)
\* the process has ended (a signal, or std::terminate on an uncaught
\* exception): the GridManager and everything it owns is gone
Dies(op, form, valid, how) ==
  /\ running' = FALSE
  /\ sources' = <<>>
  /\ loads' = <<>>
  /\ breakers' = <<>>
  /\ faults' = {}
  /\ last' = [NoOp EXCEPT !.op = op, !.form = form, !.valid = valid,
                !.outcome = how]

\* menu choices 4 and 5; vector::operator[] past size() is undefined: the
\* write lands outside the loads, or the process dies
SetLoad(op, index, flag) ==
  /\ running
  /\ IF index < Len(loads)
     THEN /\ loads' = SetConnected(loads, index, flag)
          /\ last' = [NoOp EXCEPT !.op = op, !.index = index]
          /\ UNCHANGED <<sources, breakers, faults, running>>
     ELSE \/ Dies(op, "none", FALSE, "crash")
          \/ /\ last' = [NoOp EXCEPT !.op = op, !.valid = FALSE]
             /\ UNCHANGED <<sources, loads, breakers, faults, running>>

DisconnectLoad(index) == SetLoad("disconnectLoad", index, FALSE)

ReconnectLoad(index) == SetLoad("reconnectLoad", index, TRUE)

\* faults.insert(name); breakers[name].trip()
InjectOn(name, token, valid) ==
  /\ faults' = faults \cup {name}
  /\ breakers' = Trip(breakers, name)
  /\ last' = [NoOp EXCEPT !.op = "injectManualFault",
                !.form = SelectorForm(token), !.valid = valid]
  /\ UNCHANGED <<sources, loads, running>>

\* name = v[stoi(...)].getName() for the names v; past size() the read is
\* undefined: it yields a stale name, or the process dies
InjectAt(names, token) ==
  LET n == Stoi(Tail(token))
  IN IF ~n.ok
     THEN Dies("injectManualFault", SelectorForm(token), TRUE, "terminate")
     ELSE IF n.value < Len(names)
          THEN InjectOn(names[n.value + 1], token, TRUE)
          ELSE \/ Dies("injectManualFault", SelectorForm(token), FALSE, "crash")
               \/ \E g \in StaleNames(breakers) : InjectOn(g, token, FALSE)

\* menu choice 2
InjectManualFault(token) ==
  /\ running
  /\ CASE token[1] = "L" ->
            InjectAt([i \in 1..Len(loads) |-> loads[i].name], token)
       [] token[1] = "S" ->
            InjectAt([i \in 1..Len(sources) |-> sources[i].name], token)
       [] OTHER -> InjectOn("", token, TRUE)

\* breakers[*it].reset(); faults.erase(it); the print of *it that follows
\* reads the erased node: the process dies there, or simulate() runs
ResolveOn(name, valid) ==
  \/ Dies("resolveManualFault", "none", valid, "crash")
  \/ \E o \in CycleOutcomes(sources, loads, Reset(breakers, name)) :
       /\ faults' = faults \ {name}
       /\ sources' = o.sources
       /\ loads' = o.loads
       /\ breakers' = o.breakers
       /\ last' = [NoOp EXCEPT !.op = "resolveManualFault", !.name = name,
                     !.valid = valid, !.rep = o.rep]
       /\ UNCHANGED running

\* menu choice 3; std::advance past end() is undefined: the iterator lands
\* on an entry of the set, or on nothing the engine owns, or the process dies
ResolveManualFault(index) ==
  /\ running
  /\ IF index < Cardinality(faults)
     THEN ResolveOn(FaultSeq(faults)[index + 1], TRUE)
     ELSE \/ \E n \in faults : ResolveOn(n, FALSE)
          \/ Dies("resolveManualFault", "none", FALSE, "crash")
          \/ /\ \E o \in CycleOutcomes(sources, loads, breakers) :
                  /\ sources' = o.sources
                  /\ loads' = o.loads
                  /\ breakers' = o.breakers
                  /\ last' = [NoOp EXCEPT !.op = "resolveManualFault",
                                !.valid = FALSE, !.rep = o.rep]
             /\ UNCHANGED <<faults, running>>

Next ==
  \/ Simulate
  \/ \E c \in SourceCatalogue : AddSource(c)
  \/ \E l \in LoadCatalogue : AddLoad(l)
  \/ \E t \in Tokens : InjectManualFault(t)
  \/ \E i \in Indexes : ResolveManualFault(i)
  \/ \E i \in Indexes : DisconnectLoad(i)
  \/ \E i \in Indexes : ReconnectLoad(i)

Spec == Init /\ [][Next]_vars

(* ------------------------ cycles run in a row ------------------------- *)
\* the longest run of menu choice 1 the model follows
MaxStreak == MaxLoads + 2

\* menu choice 1 taken again with no other command in between
Settle ==
  /\ running
  /\ last.streak < MaxStreak
  /\ \E o \in CycleOutcomes(sources, loads, breakers) :
       /\ sources' = o.sources
       /\ loads' = o.loads
       /\ breakers' = o.breakers
       /\ last' = [NoOp EXCEPT !.op = "simulate", !.rep = o.rep,
                     !.streak = last.streak + 1]
  /\ UNCHANGED <<faults, running>>

\* no run of cycles is under way
Idle == last.streak = 0

\* a run of cycles goes on until MaxStreak; any command starts a new one
NextSettle ==
  \/ Settle
  \/ Idle /\ Simulate
  \/ Idle /\ \E c \in SourceCatalogue : AddSource(c)
  \/ Idle /\ \E l \in LoadCatalogue : AddLoad(l)
  \/ Idle /\ \E t \in Tokens : InjectManualFault(t)
  \/ Idle /\ \E i \in Indexes : ResolveManualFault(i)
  \/ Idle /\ \E i \in Indexes : DisconnectLoad(i)
  \/ Idle /\ \E i \in Indexes : ReconnectLoad(i)

SpecSettle == Init /\ [][NextSettle]_vars

(* ------------------------------ claims -------------------------------- *)
Cyc == last.rep

AfterCycle == running /\ Cyc.ran

LoadIdx == 1..Len(loads)

\* a step in which a command started a cycle and returned
CycleStep == running' /\ last'.rep.ran

\* component names are unique, as the data model of the loads and sources
\* has them
DistinctNames ==
  /\ \A i, j \in LoadIdx : i # j => loads[i].name # loads[j].name
  /\ \A i \in LoadIdx : \A j \in 1..Len(sources) : loads[i].name # sources[j].name

\* C1: after any cycle no load is both connected and breaker-tripped (stated
\* for grids whose component names are unique)
C1_NoConnectedTripped ==
  (AfterCycle /\ DistinctNames) =>
    \A i \in LoadIdx : loads[i].connected => ~IsTripped(breakers, loads[i].name)

\* C2: at the end of any cycle the running totalDemand equals the sum of the
\* demand of the loads that are connected with an untripped breaker (stated
\* for grids whose component names are unique)
C2_Conservation ==
  (AfterCycle /\ DistinctNames) => Cyc.totalDemand = ActiveDemand(loads, breakers)

\* the demand of the loads that are connected and untripped once the first
\* j loads of the cycle's sorted candidates are shed
DemandAfterShedding(j) ==
  LET gone == {Cyc.order[p] : p \in 1..j}
      out == {Cyc.loads0[i].name : i \in gone}
  IN SumTo([i \in 1..Len(Cyc.loads0) |->
              IF /\ Cyc.loads0[i].connected
                 /\ ~Cyc.tripped0[i]
                 /\ i \notin gone
                 /\ Cyc.loads0[i].name \notin out
              THEN Cyc.loads0[i].demand ELSE 0], Len(Cyc.loads0))

\* C3: the loads a deficit cycle sheds are the shortest prefix of the sorted
\* candidates whose removal brings the demand of the connected, untripped
\* loads down to the total power (stated for grids whose component names are
\* unique)
C3_GreedyMinimal ==
  (AfterCycle /\ Cyc.branch = "deficit" /\ DistinctNames) =>
    LET k == Len(Cyc.shed)
    IN /\ Cyc.shed = SubSeq(Cyc.order, 1, k)
       /\ DemandAfterShedding(k) <= Cyc.totalPower
       /\ \A j \in 0..(k - 1) : DemandAfterShedding(j) > Cyc.totalPower

\* C4: a deficit cycle sheds in descending priority value, and with a load
\* it sheds it has shed, earlier, every load that was connected at the start
\* of the cycle with a greater priority value
C4_ShedOrder ==
  (AfterCycle /\ Cyc.branch = "deficit") =>
    /\ \A p, q \in 1..Len(Cyc.shed) :
         p < q => loads[Cyc.shed[p]].priority >= loads[Cyc.shed[q]].priority
    /\ \A k \in 1..Len(Cyc.shed) : \A i \in LoadIdx :
         (Cyc.loads0[i].connected
            /\ loads[i].priority > loads[Cyc.shed[k]].priority)
         => \E j \in 1..(k - 1) : Cyc.shed[j] = i
    /\ \A k \in 1..Len(Cyc.shed) :
         /\ Cyc.loads0[Cyc.shed[k]].connected
         /\ ~loads[Cyc.shed[k]].connected
         /\ IsTripped(breakers, loads[Cyc.shed[k]].name)

\* two loads of different priority value were shed in one deficit cycle
C4_Witness ==
  /\ AfterCycle /\ Cyc.branch = "deficit" /\ Len(Cyc.shed) = 2
  /\ loads[Cyc.shed[1]].priority > loads[Cyc.shed[2]].priority

\* the running totalDemand when the k-th candidate of the surplus walk is
\* considered: the aggregate plus the demand of the loads admitted before it
RunningDemand(k) ==
  Cyc.demand0
    + SumTo([j \in 1..Len(Cyc.walk) |->
               IF j < k /\ loads[Cyc.walk[j].idx].connected
               THEN loads[Cyc.walk[j].idx].demand ELSE 0], Len(Cyc.walk))

\* C5: the surplus branch considers exactly the disconnected loads with an
\* untripped breaker, in ascending priority value; it reconnects one if and
\* only if totalPower >= totalDemand + its demand when it is considered,
\* and goes on to the next whether or not it fitted
C5_RestoreAdmission ==
  (AfterCycle /\ Cyc.branch = "surplus") =>
    /\ {Cyc.walk[k].idx : k \in 1..Len(Cyc.walk)}
         = {i \in LoadIdx : ~Cyc.loads0[i].connected /\ ~Cyc.tripped0[i]}
    /\ \A p, q \in 1..Len(Cyc.walk) :
         p < q => /\ Cyc.walk[p].idx # Cyc.walk[q].idx
                  /\ loads[Cyc.walk[p].idx].priority
                       <= loads[Cyc.walk[q].idx].priority
    /\ \A k \in 1..Len(Cyc.walk) :
         loads[Cyc.walk[k].idx].connected
           <=> Cyc.totalPower
                 >= RunningDemand(k) + loads[Cyc.walk[k].idx].demand
    /\ \A i \in LoadIdx : Cyc.loads0[i].connected => loads[i].connected

\* a load that did not fit was skipped and a later one was reconnected
C5_Witness ==
  /\ AfterCycle /\ Cyc.branch = "surplus"
  /\ \E p, q \in 1..Len(Cyc.walk) :
       /\ p < q
       /\ ~loads[Cyc.walk[p].idx].connected
       /\ loads[Cyc.walk[q].idx].connected

\* C6: a cycle reconnects no load whose breaker is tripped, and no command
\* but the resolution of a fault on its name resets a breaker; a load that
\* is disconnected with an untripped breaker is reconnected by a cycle that
\* takes the surplus branch whenever it fits on top of the demand the cycle
\* ends with
C6_ShedRestoreAsymmetry ==
  /\ [][CycleStep =>
          \A i \in LoadIdx :
            (~loads[i].connected /\ IsTripped(breakers, loads[i].name)
               /\ loads[i].name \notin (faults \ faults'))
            => (~loads'[i].connected /\ IsTripped(breakers', loads[i].name))]_vars
  /\ [][running' =>
          \A n \in DOMAIN breakers :
            (IsTripped(breakers, n) /\ n \notin (faults \ faults'))
            => IsTripped(breakers', n)]_vars
  /\ []((AfterCycle /\ Cyc.branch = "surplus") =>
          \A i \in LoadIdx :
            (~Cyc.loads0[i].connected /\ ~Cyc.tripped0[i]
               /\ Cyc.totalPower >= Cyc.totalDemand + loads[i].demand)
            => loads[i].connected)

\* after a surplus cycle a load shed by an earlier cycle (breaker tripped,
\* name not in the fault set) is still disconnected although it would fit,
\* and a load that was disconnected with an untripped breaker is connected
C6_Witness ==
  /\ AfterCycle /\ Cyc.branch = "surplus"
  /\ \E i, j \in LoadIdx :
       /\ ~Cyc.loads0[i].connected /\ Cyc.tripped0[i] /\ ~loads[i].connected
       /\ loads[i].name \notin faults
       /\ Cyc.totalPower >= Cyc.totalDemand + loads[i].demand
       /\ ~Cyc.loads0[j].connected /\ ~Cyc.tripped0[j] /\ loads[j].connected

\* C7: resolving a fault removes its name from the fault set and resets its
\* breaker without changing any load's connected flag; a load of that name
\* that was disconnected is connected afterwards only if the cycle the
\* resolution runs takes the surplus branch and admits it
C7_FaultBreakerDecoupling ==
  [][(CycleStep /\ last'.op = "resolveManualFault" /\ last'.valid) =>
       LET rep == last'.rep
           n == last'.name
       IN /\ n \in faults
          /\ faults' = faults \ {n}
          /\ rep.loads0 = loads
          /\ \A i \in LoadIdx : loads[i].name = n => ~rep.tripped0[i]
          /\ IsTripped(breakers', n) =>
               \E k \in 1..Len(rep.shed) : loads[rep.shed[k]].name = n
          /\ \A i \in LoadIdx :
               (loads[i].name = n /\ ~loads[i].connected /\ loads'[i].connected)
               => /\ rep.branch = "surplus"
                  /\ \E k \in 1..Len(rep.walk) :
                       /\ rep.walk[k].idx = i
                       /\ rep.walk[k].admitted
                       /\ rep.totalPower
                            >= rep.walk[k].before + loads[i].demand]_vars

\* a fault on a disconnected load was resolved and the load is still
\* disconnected, its breaker reset, because it did not fit
C7_Witness ==
  /\ AfterCycle /\ last.op = "resolveManualFault" /\ last.valid
  /\ Cyc.branch = "surplus"
  /\ \E i \in LoadIdx :
       /\ loads[i].name = last.name
       /\ ~Cyc.loads0[i].connected /\ ~Cyc.tripped0[i]
       /\ ~loads[i].connected /\ ~IsTripped(breakers, loads[i].name)

\* C8: every name in the fault set has a tripped breaker
C8_FaultImpliesTripped ==
  \A n \in faults : n \in DOMAIN breakers /\ IsTripped(breakers, n)

\* the fault set is not empty, and a load shed by the last cycle has a
\* tripped breaker while its name is not in the fault set
C8_Witness ==
  /\ AfterCycle /\ Cyc.branch = "deficit" /\ faults # {}
  /\ \E k \in 1..Len(Cyc.shed) :
       /\ IsTripped(breakers, loads[Cyc.shed[k]].name)
       /\ loads[Cyc.shed[k]].name \notin faults

\* C9: a command given an index that is out of bounds is reported as failed,
\* changes nothing in the engine and runs no cycle
C9_InvalidIndexRejected ==
  [][~last'.valid =>
       /\ last'.outcome = "error"
       /\ running'
       /\ ~last'.rep.ran
       /\ UNCHANGED <<sources, loads, breakers, faults>>]_vars

\* C10: fault injection with a selector that is neither "L<i>" nor "S<i>"
\* fails with an error, adds no name to the fault set, trips no breaker and
\* creates no breaker
C10_MalformedSelectorRejected ==
  [][(last'.op = "injectManualFault" /\ last'.form = "malformed") =>
       /\ last'.outcome # "ok"
       /\ faults' = faults
       /\ breakers' = breakers]_vars

\* C11: a cycle entered with totalPower >= totalDemand sheds nothing: every
\* load that was connected when it was entered is connected after it, and
\* no breaker that was untripped when it was entered is tripped after it
C11_NoShedWithoutDeficit ==
  (AfterCycle /\ Cyc.totalPower >= Cyc.demand0) =>
    /\ Cyc.shed = <<>>
    /\ \A i \in LoadIdx : Cyc.loads0[i].connected => loads[i].connected
    /\ DOMAIN breakers = DOMAIN Cyc.breakers0
    /\ \A n \in DOMAIN breakers :
         IsTripped(breakers, n) => IsTripped(Cyc.breakers0, n)

\* a cycle found two connected loads with untripped breakers within the
\* power of a source and left both connected
C11_Witness ==
  /\ AfterCycle /\ Cyc.totalPower >= Cyc.demand0 /\ Cyc.totalPower > 0
  /\ Len(loads) = 2 /\ DistinctNames
  /\ \A i \in LoadIdx :
       /\ Cyc.loads0[i].connected /\ ~Cyc.tripped0[i] /\ loads[i].connected
  /\ Cyc.demand0 = loads[1].demand + loads[2].demand

\* C12: when the breaker of every source is tripped, so that totalPower is
\* 0, and the loads that are connected with an untripped breaker, of which
\* there is one at least, all have a positive demand, the cycle sheds every
\* load that was connected when it was entered, in descending priority
\* value, and leaves each disconnected with its breaker tripped (stated for
\* grids whose component names are unique)
C12_TotalLossOfSupply ==
  (/\ AfterCycle /\ DistinctNames /\ Len(sources) >= 1
   /\ \A j \in 1..Len(sources) : IsTripped(Cyc.breakers0, sources[j].name)
   /\ \E i \in LoadIdx : Cyc.loads0[i].connected /\ ~Cyc.tripped0[i]
   /\ \A i \in LoadIdx :
        (Cyc.loads0[i].connected /\ ~Cyc.tripped0[i]) => loads[i].demand > 0)
  => /\ Cyc.totalPower = 0
     /\ \A i \in LoadIdx :
          Cyc.loads0[i].connected =>
            /\ \E k \in 1..Len(Cyc.shed) : Cyc.shed[k] = i
            /\ ~loads[i].connected
            /\ IsTripped(breakers, loads[i].name)
     /\ \A p, q \in 1..Len(Cyc.shed) :
          p < q => loads[Cyc.shed[p]].priority >= loads[Cyc.shed[q]].priority

\* C13: addLoad appends the load, connected, and creates an untripped
\* breaker for its name if the name has none; it runs no cycle and leaves
\* the loads, the breakers and the sources that existed and the fault set
\* as they were.  addSource appends the source, creates an untripped breaker
\* for its name if the name has none, and then runs one cycle, on the loads
\* as they were
C13_RegistrationEffects ==
  [][/\ (running' /\ last'.op = "addLoad") =>
          LET new == loads'[Len(loads')]
          IN /\ Len(loads') = Len(loads) + 1
             /\ SubSeq(loads', 1, Len(loads)) = loads
             /\ new \in LoadCatalogue
             /\ DOMAIN breakers' = DOMAIN breakers \cup {new.name}
             /\ \A n \in DOMAIN breakers : breakers'[n] = breakers[n]
             /\ new.name \notin DOMAIN breakers => ~IsTripped(breakers', new.name)
             /\ ~last'.rep.ran
             /\ UNCHANGED <<sources, faults>>
     /\ (running' /\ last'.op = "addSource") =>
          LET new == sources'[Len(sources')]
              rep == last'.rep
          IN /\ Len(sources') = Len(sources) + 1
             /\ \A j \in 1..Len(sources) : sources'[j].name = sources[j].name
             /\ new.name \in {c.name : c \in SourceCatalogue}
             /\ rep.ran
             /\ rep.loads0 = loads
             /\ DOMAIN rep.breakers0 = DOMAIN breakers \cup {new.name}
             /\ \A n \in DOMAIN breakers : rep.breakers0[n] = breakers[n]
             /\ new.name \notin DOMAIN breakers => ~IsTripped(rep.breakers0, new.name)
             /\ rep.totalPower = ActivePower(sources', rep.breakers0)
             /\ faults' = faults]_vars

\* a load was registered on a grid that has a source, a fault and a load
\* that is disconnected with a tripped breaker; its breaker is untripped
C13_Witness ==
  /\ running /\ last.op = "addLoad"
  /\ Len(loads) = 2 /\ Len(sources) = 1 /\ faults # {}
  /\ ~loads[1].connected /\ IsTripped(breakers, loads[1].name)
  /\ loads[2].connected /\ ~IsTripped(breakers, loads[2].name)

\* C14: a manual disconnect (reconnect) with a valid index sets the
\* connected flag of the load at that index to false (true) whatever it
\* was; it changes nothing else of that load, no other load, no source, no
\* breaker and not the fault set, and runs no cycle
C14_ManualSetFrame ==
  [][(running' /\ last'.valid
        /\ last'.op \in {"disconnectLoad", "reconnectLoad"}) =>
       LET i == last'.index + 1
       IN /\ i \in LoadIdx
          /\ loads' = [loads EXCEPT
                         ![i].connected = (last'.op = "reconnectLoad")]
          /\ UNCHANGED <<sources, breakers, faults>>
          /\ ~last'.rep.ran]_vars

\* the second load was reconnected by hand although its breaker is
\* tripped, while the first load is disconnected
C14_Witness ==
  /\ running /\ last.op = "reconnectLoad" /\ last.valid /\ last.index = 1
  /\ Len(loads) = 2
  /\ loads[2].connected /\ IsTripped(breakers, loads[2].name)
  /\ ~loads[1].connected

\* C15: a cycle leaves a source whose breaker is tripped when it is entered
\* as it was, its stored output included, and counts nothing for it; the
\* output of a Variable source whose breaker is untripped is sampled anew;
\* totalPower is the sum of the outputs, after the sampling, of the sources
\* that are connected with an untripped breaker
C15_SourceAggregation ==
  [][CycleStep =>
       LET rep == last'.rep
           tripped(j) == IsTripped(rep.breakers0, sources'[j].name)
       IN /\ \A j \in 1..Len(sources') :
               tripped(j) =>
                 IF j <= Len(sources) THEN sources'[j] = sources[j]
                 ELSE sources'[j] \in SourceCatalogue
          /\ \A j \in 1..Len(sources') :
               (~tripped(j) /\ sources'[j].solar) =>
                 sources'[j].powerOutput
                   \in {SolarBase + (r % SolarSpan) : r \in RandSamples}
          /\ rep.totalPower
               = SumTo([j \in 1..Len(sources') |->
                          IF ~tripped(j) /\ sources'[j].status
                          THEN sources'[j].powerOutput ELSE 0], Len(sources'))]_vars

\* a cycle ran with the breaker of the one source, a Variable source,
\* tripped: totalPower is 0 while the source holds the output of an earlier
\* cycle
C15_Witness ==
  /\ AfterCycle /\ Len(sources) = 1 /\ sources[1].solar
  /\ IsTripped(Cyc.breakers0, sources[1].name)
  /\ Cyc.totalPower = 0
  /\ sources[1].powerOutput \in {SolarBase + (r % SolarSpan) : r \in RandSamples}

\* C16: in the sorted candidates of a cycle, of either branch, loads of
\* equal priority value stand in the order of their registration: the
\* deficit branch sheds, and the surplus branch considers, the load
\* registered earlier first (stated for grids whose component names are
\* unique)
C16_TieBreakStability ==
  (AfterCycle /\ DistinctNames) =>
    \A p, q \in 1..Len(Cyc.order) :
      (p < q /\ loads[Cyc.order[p]].priority = loads[Cyc.order[q]].priority)
      => Cyc.order[p] < Cyc.order[q]

\* the names of the loads the cycle of a step sheds
ShedNames(rep) == {rep.loads0[rep.shed[k]].name : k \in 1..Len(rep.shed)}

\* what C17 says of every breaker: the cycle of a step resets none, creates
\* none, trips those of the loads it sheds and no other; and a command that
\* only runs a cycle leaves the fault set as it was
CycleBreakerFrame ==
  LET rep == last'.rep
  IN /\ last'.op \in {"simulate", "addSource"} => faults' = faults
     /\ DOMAIN breakers' = DOMAIN rep.breakers0
     /\ \A n \in DOMAIN breakers' :
          /\ IsTripped(rep.breakers0, n) => IsTripped(breakers', n)
          /\ (IsTripped(breakers', n) /\ ~IsTripped(rep.breakers0, n))
               => n \in ShedNames(rep)
     /\ \A n \in ShedNames(rep) : IsTripped(breakers', n)
     /\ rep.shed # <<>> => rep.branch = "deficit"

\* C17 as stated: a cycle never changes the fault set and never resets a
\* breaker, the only breakers it trips are those of the loads it sheds in
\* the deficit branch, and it trips the breaker of no source
C17_CycleFrame ==
  [][CycleStep =>
       /\ CycleBreakerFrame
       /\ \A j \in 1..Len(sources') :
            IsTripped(breakers', sources'[j].name)
              => IsTripped(last'.rep.breakers0, sources'[j].name)]_vars

\* C17, amended: a cycle never changes the fault set and never resets a
\* breaker, the only breakers it trips are those of the loads it sheds in
\* the deficit branch, and it trips the breaker of a source only when the
\* source is registered under the name of a load it sheds
C17_CycleFrameAmended ==
  [][CycleStep =>
       /\ CycleBreakerFrame
       /\ \A j \in 1..Len(sources') :
            (IsTripped(breakers', sources'[j].name)
               /\ ~IsTripped(last'.rep.breakers0, sources'[j].name))
            => sources'[j].name \in ShedNames(last'.rep)]_vars

\* a deficit cycle shed a load registered under the name of a source, and
\* the breaker of that name, untripped when the cycle was entered, is
\* tripped, while a fault on another name is still in the fault set
C17_Witness ==
  /\ AfterCycle /\ Cyc.branch = "deficit" /\ faults # {}
  /\ \E j \in 1..Len(sources) :
       /\ sources[j].name \in ShedNames(Cyc)
       /\ ~IsTripped(Cyc.breakers0, sources[j].name)
       /\ IsTripped(breakers, sources[j].name)
       /\ sources[j].name \notin faults

\* C18: registering a load or a source under a name that has a breaker
\* adds no breaker and leaves every breaker, that of the name included, as
\* tripped as it was; a load so registered under a tripped name is connected
\* with a tripped breaker.  The one breaker of a name governs every
\* component of that name: a cycle counts the output of no source and the
\* demand of no load whose name has a tripped breaker when it is entered
C18_SharedBreaker ==
  /\ [][(running' /\ last'.op \in {"addLoad", "addSource"}) =>
          LET isLoad == last'.op = "addLoad"
              new == IF isLoad THEN loads'[Len(loads')].name
                     ELSE sources'[Len(sources')].name
              entry == IF isLoad THEN breakers' ELSE last'.rep.breakers0
          IN new \in DOMAIN breakers =>
               /\ entry = breakers
               /\ (isLoad /\ IsTripped(breakers, new)) =>
                    /\ loads'[Len(loads')].connected
                    /\ IsTripped(breakers', new)]_vars
  /\ [](AfterCycle =>
          /\ Cyc.totalPower
               = SumTo([j \in 1..Len(sources) |->
                          IF sources[j].name
                               \in {n \in DOMAIN Cyc.breakers0 : Cyc.breakers0[n]}
                          THEN 0 ELSE sources[j].powerOutput], Len(sources))
          /\ Cyc.demand0
               = SumTo([i \in LoadIdx |->
                          IF \/ loads[i].name
                                  \in {n \in DOMAIN Cyc.breakers0 : Cyc.breakers0[n]}
                             \/ ~Cyc.loads0[i].connected
                          THEN 0 ELSE loads[i].demand], Len(loads)))

\* a cycle was entered with a source and a connected load registered under
\* one name whose breaker is tripped: it counted the output of the one and
\* the demand of the other as nothing, and the demand of a second load
C18_Witness ==
  /\ AfterCycle /\ Len(loads) = 2 /\ Len(sources) = 1
  /\ loads[1].name = sources[1].name /\ loads[2].name # loads[1].name
  /\ Cyc.loads0[1].connected /\ Cyc.loads0[2].connected
  /\ IsTripped(Cyc.breakers0, loads[1].name)
  /\ ~IsTripped(Cyc.breakers0, loads[2].name)
  /\ Cyc.totalPower = 0 /\ Cyc.demand0 = loads[2].demand

\* C19: at the end of a cycle the demand of the loads that are connected
\* with an untripped breaker does not exceed the totalPower of the cycle,
\* unless no load is connected any more (stated for grids whose component
\* names are unique)
C19_BalanceAfterCycle ==
  (AfterCycle /\ DistinctNames) =>
    \/ ActiveDemand(loads, breakers) <= Cyc.totalPower
    \/ \A i \in LoadIdx : ~loads[i].connected

\* every source is a Fixed source
FixedOnly == \A j \in 1..Len(sources) : ~sources[j].solar

\* C20: with Fixed sources only, a deficit cycle disconnects a load that
\* was connected; and in a run of cycles with no other command in between,
\* a cycle that follows a surplus cycle changes no load and no breaker, and
\* so does every cycle that follows (number of loads + 1) cycles of the run
C20_Convergence ==
  [][/\ (CycleStep /\ FixedOnly' /\ last'.rep.branch = "deficit") =>
          \E i \in 1..Len(last'.rep.loads0) :
            last'.rep.loads0[i].connected /\ ~loads'[i].connected
     /\ (running' /\ last'.streak > 0 /\ FixedOnly) =>
          /\ (last.rep.ran /\ last.rep.branch = "surplus") =>
               (loads' = loads /\ breakers' = breakers /\ sources' = sources)
          /\ last.streak >= Len(loads) + 1 =>
               (loads' = loads /\ breakers' = breakers /\ sources' = sources)]_vars

\* the second cycle of a run on Fixed sources sheds again, on a grid whose
\* component names are unique
C20_Witness ==
  /\ running /\ FixedOnly /\ DistinctNames /\ Len(sources) = 1
  /\ last.streak = 2 /\ Cyc.branch = "deficit" /\ Cyc.shed # <<>>

====
